---- MODULE Spec2Model ----
(***************************************************************************)
(* APManager: the cross-process recursive file mutex (manager/core/lock.py), *)
(* the root command broker (manager/setup/ap_manager_daemon.py with its    *)
(* client), privilege probing and elevation (manager/ap_utils/privilege.py) *)
(* and the signal handlers (manager/core/signals.py).                      *)
(*                                                                         *)
(* The mutex is modelled at the level of its system calls, one step per    *)
(* call, because the calls of different threads and processes interleave.  *)
(* flock(2) locks belong to an open file description: every thread of a    *)
(* process uses the LockManager's one descriptor, so a second LOCK_EX on   *)
(* it converts the lock the description already holds and is granted at    *)
(* once; a description of another process waits.                           *)
(***************************************************************************)
EXTENDS Integers, Sequences, FiniteSets, TLC

\* ------------------------------------------------------------------ bounds

\* Nesting depth explored by the one-process specification (past 10, where
\* the decimal text of the counter changes length).
MaxDepth == 11
\* Nesting depth per process in the two-process specification.
MaxNest == 3
\* Signals sent to the processes from outside (the terminal, kill), in all.
MaxSignals == 2
\* Nesting depth per thread in the threaded specification.
MaxThreadNest == 2
\* A thread of the threaded specification starts another acquisition only
\* while the counter it would read is below this.
MaxThreadCount == 3

\* mutex_lock calls made in one run of the long-counter specification
MaxNested == 60

\* ------------------------------------------------------------------ processes

Procs == {"p1", "p2"}
Conns == {"c1", "c2"}
Threads == {"p1a", "p1b", "p2a"}
ProcOf(t) == IF t = "p2a" THEN "p2" ELSE "p1"
ThreadsOf(p) == {t \in Threads : ProcOf(t) = p}

\* conn.recv(4096): at most this many bytes are received.
RecvSize == 4096

\* os.read(self.counter_lock_fd, 10): at most this many bytes are read.
ReadSize == 10

VARIABLES
    lock_fd,          \* [Procs -> {"None","open","closed"}] self.lock_fd
    counter_lock_fd,  \* [Procs -> {"None","open"}]          self.counter_lock_fd
    gflock,           \* holder of LOCK_EX on the global lock file: a process or "free"
    cflock,           \* [Procs -> BOOLEAN] the counter descriptor holds LOCK_EX
    cfile,            \* [Procs -> Seq(0..9)] bytes of the counter file, as decimal digits
    cpath,            \* [Procs -> BOOLEAN] the counter file's path exists
    pc,               \* [Threads -> position in mutex_lock / mutex_unlock]
    counter,          \* [Threads -> Nat] the local variable `counter`
    readv,            \* [Threads -> Nat] the value the current/last call read from the file
    ret,              \* [Threads -> {"none","True","False"}] what the last call returned
    op,               \* [Threads -> {"none","mutex_lock","mutex_unlock","cleanup_lock"}] last call
    depth,            \* [Threads -> Nat] acquisitions that returned True and are not yet released
    conn,             \* [Conns -> connection: state, bytes received, responses sent]
    spawned,          \* [Conns -> Seq(argv)] the subprocesses the connection's handler started
    request_id,       \* APManagerClient.request_id
    result,           \* [Conns -> outcome of the client call that uses the connection]
    running,          \* APManagerDaemon.running
    socket,           \* APManagerDaemon.socket: "None", "listening" or "closed"
    sockpath,         \* SOCKET_PATH exists in the file system
    daemon,           \* position of the daemon's main thread
    env,              \* what PrivilegeManager's probes find: identity, backends, commands
    probed,           \* the last _check_command_needs_root call: <<>> or <<[cmd, needs_root]>>
    estate,           \* position of the elevation: "Probed", "returned", "raised", "replaced", or after the caller's reaction "done"
    backend,          \* the elevation backend elevate_if_needed entered, "none" for none
    eresult,          \* what elevate_if_needed gave its caller: "True", "False", an exception
    caller,           \* what the caller of elevate_if_needed did with the result
    shandlers,        \* [SigProcs -> [Signals -> disposition]] "handle_signal" or "original"
    pending,          \* [SigProcs -> SUBSET Signals] signals sent to the process, not yet delivered
    frames,           \* [SigProcs -> Seq(frame)] the running calls of handle_signal, innermost last
    status,           \* [SigProcs -> "running" or how the process ended]
    received,         \* [SigProcs -> Seq(Signals)] the signals handle_signal was called with
    notified,         \* [SigProcs -> Nat] signals the process sent to its parent
    cleaned,          \* [SigProcs -> Nat] calls of cleanup() that returned
    external,         \* signals sent to the two processes from outside, so far
    entry,            \* how the client program was entered: "none", "ensured", or the exception of __enter__
    starts,            \* `systemctl start ap_manager_daemon` commands run so far
    lock_file,         \* the global lock file /tmp/create_ap.all.lock exists
    nlocks,           \* decimal digits of the number of mutex_lock calls process p1 has made with no mutex_unlock
    nsteps,            \* mutex_lock calls made in this run by nested_mutex_lock
    tmpfiles,         \* the temporary files of the elevation backends that exist
    ecall             \* the running or last call of a backend function: [fn, pos, res]

lockvars == <<lock_fd, counter_lock_fd, gflock, cflock, cfile, cpath,
              pc, counter, readv, ret, op, depth>>

daemonvars == <<running, socket, sockpath, daemon>>

brokervars == <<conn, spawned, request_id, result, daemonvars>>

privvars == <<env, probed, estate, backend, eresult, caller>>

sigvars == <<shandlers, pending, frames, status, received, notified, cleaned, external>>

clientvars == <<entry, starts>>

fsvars == <<lock_file>>

nestvars == <<nlocks, nsteps>>

tmpvars == <<tmpfiles, ecall>>

vars == <<lockvars, brokervars, privvars, sigvars, clientvars, fsvars, nestvars, tmpvars>>

\* ------------------------------------------------------------------ counter text

Min(a, b) == IF a < b THEN a ELSE b
Max(a, b) == IF a > b THEN a ELSE b

\* str(counter).encode(): the decimal digits of n, most significant first.
RECURSIVE Str(_)
Str(n) == IF n < 10 THEN <<n>> ELSE Append(Str(n \div 10), n % 10)

\* int(data.decode().strip()): the number a digit string denotes.
RECURSIVE ParseInt(_)
ParseInt(s) ==
    IF Len(s) = 0 THEN 0
    ELSE 10 * ParseInt(SubSeq(s, 1, Len(s) - 1)) + s[Len(s)]

\* os.lseek(fd, 0, SEEK_SET); os.read(fd, 10); int(...) if data else 0
ReadCounter(bytes) == ParseInt(SubSeq(bytes, 1, Min(Len(bytes), ReadSize)))

\* os.lseek(fd, 0, SEEK_SET); os.write(fd, str(n).encode()): the first bytes are
\* overwritten, the file is not truncated, so bytes past the new text stay.
WriteCounter(bytes, n) ==
    Str(n) \o SubSeq(bytes, Len(Str(n)) + 1, Len(bytes))

\* ------------------------------------------------------------------ flock

\* fcntl.flock(fd, LOCK_EX) is granted when no other open file description
\* holds the lock; the description that already holds it is granted again.
FlockGranted(holder, ofd) == holder = "free" \/ holder = ofd

\* ------------------------------------------------------------------ construction

\* __init_lock__ as the constructor leaves one process: every file opened,
\* the global file unopenable, the counter file unopenable, or the first
\* write of b'0' failing after both files were opened.
InitOutcomes == {"ok", "no_global", "no_counter", "no_write"}

init_lock_fd(o) == IF o = "no_global" THEN "None" ELSE "open"
init_counter_lock_fd(o) == IF o \in {"no_global", "no_counter"} THEN "None" ELSE "open"
init_cfile(o) == IF o = "ok" THEN <<0>> ELSE <<>>
init_cpath(o) == o \in {"ok", "no_write"}

\* os.open(self.LOCK_FILE, ...) succeeded in some process: the file exists.
\* Where it failed in every process the file may or may not exist.
init_lock_file(o) == IF \E p \in Procs : o[p] # "no_global" THEN {TRUE} ELSE BOOLEAN

InitLockManager(outcomes) ==
    /\ \E o \in [Procs -> InitOutcomes] :
         /\ \A p \in Procs : o[p] \in outcomes[p]
         /\ lock_fd = [p \in Procs |-> init_lock_fd(o[p])]
         /\ counter_lock_fd = [p \in Procs |-> init_counter_lock_fd(o[p])]
         /\ cfile = [p \in Procs |-> init_cfile(o[p])]
         /\ cpath = [p \in Procs |-> init_cpath(o[p])]
         /\ lock_file \in init_lock_file(o)
    /\ gflock = "free"
    /\ cflock = [p \in Procs |-> FALSE]
    /\ pc = [t \in Threads |-> "idle"]
    /\ counter = [t \in Threads |-> 0]
    /\ readv = [t \in Threads |-> 0]
    /\ ret = [t \in Threads |-> "none"]
    /\ op = [t \in Threads |-> "none"]
    /\ depth = [t \in Threads |-> 0]
    /\ nlocks = <<0>>
    /\ nsteps = 0

Initialized(p) == counter_lock_fd[p] # "None" /\ lock_fd[p] # "None"

\* ------------------------------------------------------------------ mutex_lock

\* The call and its guard: `if self.counter_lock_fd is None or self.lock_fd is None`.
mutex_lock_call(t) ==
    /\ pc[t] = "idle"
    /\ op' = [op EXCEPT ![t] = "mutex_lock"]
    /\ IF Initialized(ProcOf(t))
       THEN /\ pc' = [pc EXCEPT ![t] = "lk_flock_counter"]
            /\ ret' = [ret EXCEPT ![t] = "none"]
       ELSE /\ pc' = pc
            /\ ret' = [ret EXCEPT ![t] = "False"]
    /\ UNCHANGED <<brokervars, privvars, sigvars, tmpvars, nestvars, fsvars, clientvars, lock_fd, counter_lock_fd, gflock, cflock, cfile, cpath,
                   counter, readv, depth>>

\* fcntl.flock(self.counter_lock_fd, fcntl.LOCK_EX)
lk_flock_counter(t) ==
    /\ pc[t] = "lk_flock_counter"
    /\ FlockGranted(IF cflock[ProcOf(t)] THEN ProcOf(t) ELSE "free", ProcOf(t))
    /\ cflock' = [cflock EXCEPT ![ProcOf(t)] = TRUE]
    /\ pc' = [pc EXCEPT ![t] = "lk_read"]
    /\ UNCHANGED <<brokervars, privvars, sigvars, tmpvars, nestvars, fsvars, clientvars, lock_fd, counter_lock_fd, gflock, cfile, cpath,
                   counter, readv, ret, op, depth>>

\* Mutants of lk_branch: the global lock is never requested; it is requested
\* on every call, nested ones included.
lk_branch_never(c) == "lk_write"
lk_branch_always(c) == "lk_flock_global"

\* `if counter == 0:` decides whether the global lock is requested.
lk_branch(c) == IF c = 0 THEN "lk_flock_global" ELSE "lk_write"

\* lseek, read, int(): the counter is read, then the branch on it.
lk_read(t) ==
    /\ pc[t] = "lk_read"
    /\ counter' = [counter EXCEPT ![t] = ReadCounter(cfile[ProcOf(t)])]
    /\ readv' = [readv EXCEPT ![t] = ReadCounter(cfile[ProcOf(t)])]
    /\ pc' = [pc EXCEPT ![t] = lk_branch(ReadCounter(cfile[ProcOf(t)]))]
    /\ UNCHANGED <<brokervars, privvars, sigvars, tmpvars, nestvars, fsvars, clientvars, lock_fd, counter_lock_fd, gflock, cflock, cfile, cpath,
                   ret, op, depth>>

\* fcntl.flock(self.lock_fd, fcntl.LOCK_EX): blocks while another process
\* holds the lock; on a closed descriptor it raises OSError, which the
\* except clause turns into `return False`.
lk_flock_global(t) ==
    /\ pc[t] = "lk_flock_global"
    /\ IF lock_fd[ProcOf(t)] = "closed"
       THEN /\ pc' = [pc EXCEPT ![t] = "idle"]
            /\ ret' = [ret EXCEPT ![t] = "False"]
            /\ gflock' = gflock
       ELSE /\ FlockGranted(gflock, ProcOf(t))
            /\ gflock' = ProcOf(t)
            /\ pc' = [pc EXCEPT ![t] = "lk_write"]
            /\ ret' = ret
    /\ UNCHANGED <<brokervars, privvars, sigvars, tmpvars, nestvars, fsvars, clientvars, lock_fd, counter_lock_fd, cflock, cfile, cpath,
                   counter, readv, op, depth>>

\* counter += 1; lseek; write(str(counter)); fsync
lk_write(t) ==
    /\ pc[t] = "lk_write"
    /\ counter' = [counter EXCEPT ![t] = counter[t] + 1]
    /\ cfile' = [cfile EXCEPT ![ProcOf(t)] = WriteCounter(@, counter[t] + 1)]
    /\ pc' = [pc EXCEPT ![t] = "lk_unflock_counter"]
    /\ UNCHANGED <<brokervars, privvars, sigvars, tmpvars, nestvars, fsvars, clientvars, lock_fd, counter_lock_fd, gflock, cflock, cpath,
                   readv, ret, op, depth>>

\* fcntl.flock(self.counter_lock_fd, fcntl.LOCK_UN); return True
lk_unflock_counter(t) ==
    /\ pc[t] = "lk_unflock_counter"
    /\ cflock' = [cflock EXCEPT ![ProcOf(t)] = FALSE]
    /\ pc' = [pc EXCEPT ![t] = "idle"]
    /\ ret' = [ret EXCEPT ![t] = "True"]
    /\ depth' = [depth EXCEPT ![t] = depth[t] + 1]
    /\ UNCHANGED <<brokervars, privvars, sigvars, tmpvars, nestvars, fsvars, clientvars, lock_fd, counter_lock_fd, gflock, cfile, cpath,
                   counter, readv, op>>

mutex_lock(t) ==
    \/ lk_flock_counter(t)
    \/ lk_read(t)
    \/ lk_flock_global(t)
    \/ lk_write(t)
    \/ lk_unflock_counter(t)

\* ------------------------------------------------------------------ mutex_lock on long counters

\* int(data.decode().strip()) as Python computes it, without a width: the
\* digits of the number, leading zeros dropped.
RECURSIVE int(_)
int(data) ==
    IF Len(data) <= 1 THEN data
    ELSE IF data[1] = 0 THEN int(Tail(data)) ELSE data

\* counter += 1 on the digits of a Python int
RECURSIVE increment(_)
increment(digits) ==
    IF Len(digits) = 0 THEN <<1>>
    ELSE IF digits[Len(digits)] < 9
         THEN SubSeq(digits, 1, Len(digits) - 1) \o <<digits[Len(digits)] + 1>>
         ELSE increment(SubSeq(digits, 1, Len(digits) - 1)) \o <<0>>

\* The counter file after one mutex_lock: os.read(fd, 10), the increment,
\* and os.write at offset 0 of the new digits over the old content.
lock_text(bytes) ==
    LET data == SubSeq(bytes, 1, Min(Len(bytes), ReadSize))
        new == increment(IF Len(data) = 0 THEN <<0>> ELSE int(data))
    IN new \o SubSeq(bytes, Len(new) + 1, Len(bytes))

\* One whole mutex_lock call of a single-threaded process that holds, or
\* on its first call takes, the global lock.
nested_mutex_lock(t) ==
    /\ pc[t] = "idle"
    /\ Initialized(ProcOf(t))
    /\ nsteps < MaxNested
    /\ FlockGranted(gflock, ProcOf(t))
    /\ gflock' = ProcOf(t)
    /\ cfile' = [cfile EXCEPT ![ProcOf(t)] = lock_text(@)]
    /\ nlocks' = increment(nlocks)
    /\ nsteps' = nsteps + 1
    /\ op' = [op EXCEPT ![t] = "mutex_lock"]
    /\ ret' = [ret EXCEPT ![t] = "True"]
    /\ UNCHANGED <<brokervars, privvars, sigvars, tmpvars, clientvars, fsvars, lock_fd, counter_lock_fd,
                   cflock, cpath, pc, counter, readv, depth>>

\* ------------------------------------------------------------------ mutex_unlock

\* The caller leaves its critical section and calls mutex_unlock.
mutex_unlock_call(t) ==
    /\ pc[t] = "idle"
    /\ op' = [op EXCEPT ![t] = "mutex_unlock"]
    /\ depth' = [depth EXCEPT ![t] = Max(depth[t] - 1, 0)]
    /\ IF Initialized(ProcOf(t))
       THEN /\ pc' = [pc EXCEPT ![t] = "ul_flock_counter"]
            /\ ret' = [ret EXCEPT ![t] = "none"]
       ELSE /\ pc' = pc
            /\ ret' = [ret EXCEPT ![t] = "False"]
    /\ UNCHANGED <<brokervars, privvars, sigvars, tmpvars, nestvars, fsvars, clientvars, lock_fd, counter_lock_fd, gflock, cflock, cfile, cpath,
                   counter, readv>>

\* fcntl.flock(self.counter_lock_fd, fcntl.LOCK_EX)
ul_flock_counter(t) ==
    /\ pc[t] = "ul_flock_counter"
    /\ FlockGranted(IF cflock[ProcOf(t)] THEN ProcOf(t) ELSE "free", ProcOf(t))
    /\ cflock' = [cflock EXCEPT ![ProcOf(t)] = TRUE]
    /\ pc' = [pc EXCEPT ![t] = "ul_read"]
    /\ UNCHANGED <<brokervars, privvars, sigvars, tmpvars, nestvars, fsvars, clientvars, lock_fd, counter_lock_fd, gflock, cfile, cpath,
                   counter, readv, ret, op, depth>>

\* `if counter > 0: counter -= 1`
ul_decrement(c) == IF c > 0 THEN c - 1 ELSE c

\* `if counter == 0:` nested in `if counter > 0:` decides whether the
\* global lock is released.
ul_branch(c) == IF c > 0 /\ ul_decrement(c) = 0 THEN "ul_unflock_global" ELSE "ul_write"

\* lseek, read, int(), the decrement and the branch on it.
ul_read(t) ==
    /\ pc[t] = "ul_read"
    /\ readv' = [readv EXCEPT ![t] = ReadCounter(cfile[ProcOf(t)])]
    /\ counter' = [counter EXCEPT ![t] = ul_decrement(ReadCounter(cfile[ProcOf(t)]))]
    /\ pc' = [pc EXCEPT ![t] = ul_branch(ReadCounter(cfile[ProcOf(t)]))]
    /\ UNCHANGED <<brokervars, privvars, sigvars, tmpvars, nestvars, fsvars, clientvars, lock_fd, counter_lock_fd, gflock, cflock, cfile, cpath,
                   ret, op, depth>>

\* fcntl.flock(self.lock_fd, fcntl.LOCK_UN); OSError on a closed descriptor.
ul_unflock_global(t) ==
    /\ pc[t] = "ul_unflock_global"
    /\ IF lock_fd[ProcOf(t)] = "closed"
       THEN /\ pc' = [pc EXCEPT ![t] = "idle"]
            /\ ret' = [ret EXCEPT ![t] = "False"]
            /\ gflock' = gflock
       ELSE /\ gflock' = IF gflock = ProcOf(t) THEN "free" ELSE gflock
            /\ pc' = [pc EXCEPT ![t] = "ul_write"]
            /\ ret' = ret
    /\ UNCHANGED <<brokervars, privvars, sigvars, tmpvars, nestvars, fsvars, clientvars, lock_fd, counter_lock_fd, cflock, cfile, cpath,
                   counter, readv, op, depth>>

\* lseek; write(str(counter)); fsync
ul_write(t) ==
    /\ pc[t] = "ul_write"
    /\ cfile' = [cfile EXCEPT ![ProcOf(t)] = WriteCounter(@, counter[t])]
    /\ pc' = [pc EXCEPT ![t] = "ul_unflock_counter"]
    /\ UNCHANGED <<brokervars, privvars, sigvars, tmpvars, nestvars, fsvars, clientvars, lock_fd, counter_lock_fd, gflock, cflock, cpath,
                   counter, readv, ret, op, depth>>

\* The value mutex_unlock returns when it ran to its end.
ul_result(read) == "True"

\* fcntl.flock(self.counter_lock_fd, fcntl.LOCK_UN); return True
ul_unflock_counter(t) ==
    /\ pc[t] = "ul_unflock_counter"
    /\ cflock' = [cflock EXCEPT ![ProcOf(t)] = FALSE]
    /\ pc' = [pc EXCEPT ![t] = "idle"]
    /\ ret' = [ret EXCEPT ![t] = ul_result(readv[t])]
    /\ UNCHANGED <<brokervars, privvars, sigvars, tmpvars, nestvars, fsvars, clientvars, lock_fd, counter_lock_fd, gflock, cfile, cpath,
                   counter, readv, op, depth>>

mutex_unlock(t) ==
    \/ ul_flock_counter(t)
    \/ ul_read(t)
    \/ ul_unflock_global(t)
    \/ ul_write(t)
    \/ ul_unflock_counter(t)

\* ------------------------------------------------------------------ cleanup_lock

\* Mutant of cleanup_counter_lock: the path is left in place.
cleanup_counter_lock_keep(exists) == exists

\* cleanup_counter_lock: `if os.path.exists(...): os.remove(...)`; whether
\* the counter file's path exists afterwards
cleanup_counter_lock(exists) == FALSE

\* cleanup_counter_lock removes the counter file's path; cleanup_lock then
\* closes lock_fd, which drops the flock its description holds. The counter
\* descriptor stays open on the unlinked file. A second close raises
\* OSError, which is swallowed.
cleanup_lock(t) ==
    /\ pc[t] = "idle"
    /\ op' = [op EXCEPT ![t] = "cleanup_lock"]
    /\ ret' = [ret EXCEPT ![t] = "none"]
    /\ cpath' = [cpath EXCEPT ![ProcOf(t)] = cleanup_counter_lock(@)]
    /\ lock_fd' = [lock_fd EXCEPT ![ProcOf(t)] = IF @ = "None" THEN "None" ELSE "closed"]
    /\ gflock' = IF lock_fd[ProcOf(t)] = "open" /\ gflock = ProcOf(t) THEN "free" ELSE gflock
    /\ UNCHANGED <<brokervars, privvars, sigvars, tmpvars, nestvars, fsvars, clientvars, counter_lock_fd, cflock, cfile, pc, counter, readv, depth>>


\* ------------------------------------------------------------------ the end of a process

\* Mutant of close_flock: the lock outlives the descriptors of its holder.
close_flock_kept(holder, p) == holder

\* The kernel closes the descriptors of an ending process, which drops the
\* flock their descriptions hold.
close_flock(holder, p) == IF holder = p THEN "free" ELSE holder

\* Process p ends, in any of its calls: through sys.exit and normal
\* interpreter exit (clean), where the atexit hook cleanup_lock runs, or
\* killed without it.
exit(p, clean) ==
    /\ \E t \in ThreadsOf(p) : pc[t] # "exited"
    /\ pc' = [t \in Threads |-> IF ProcOf(t) = p THEN "exited" ELSE pc[t]]
    /\ cpath' = [cpath EXCEPT ![p] = IF clean THEN cleanup_counter_lock(@) ELSE @]
    /\ lock_fd' = [lock_fd EXCEPT ![p] = IF @ = "None" THEN "None" ELSE "closed"]
    /\ gflock' = close_flock(gflock, p)
    /\ cflock' = [cflock EXCEPT ![p] = FALSE]
    /\ UNCHANGED <<brokervars, privvars, sigvars, clientvars, fsvars, nestvars, tmpvars,
                   counter_lock_fd, cfile, counter, readv, ret, op, depth>>

\* ------------------------------------------------------------------ a second LockManager

\* LockManager() constructed in a running process, every file opened:
\* cleanup_counter_lock removes the counter path of this pid, the global
\* lock file is opened on a descriptor of its own, and the counter path is
\* created anew holding b'0'. Where two LockManager objects of one process
\* are modelled, i and j stand for the objects, and the path is the same
\* path for both.
init_lock(i) ==
    /\ \A t \in Threads : pc[t] = "idle"
    /\ lock_fd[i] = "None" /\ counter_lock_fd[i] = "None"
    /\ lock_fd' = [lock_fd EXCEPT ![i] = init_lock_fd("ok")]
    /\ counter_lock_fd' = [counter_lock_fd EXCEPT ![i] = init_counter_lock_fd("ok")]
    /\ cfile' = [cfile EXCEPT ![i] = init_cfile("ok")]
    /\ cpath' = [j \in Procs |-> init_cpath("ok")]
    /\ lock_file' = TRUE
    /\ UNCHANGED <<brokervars, privvars, sigvars, clientvars, nestvars, tmpvars,
                   gflock, cflock, pc, counter, readv, ret, op, depth>>

\* ------------------------------------------------------------------ broker: values

\* A Python str is a sequence of text chunks; `+` on two of them is \o, so
\* <<"iw", "config">> is the string "iwconfig". A JSON value carries its
\* type; val is always a sequence of strs: the one str of a "str", the
\* items of a "list", nothing for "null".
JStr(s) == [type |-> "str", val |-> <<s>>]
JList(l) == [type |-> "list", val |-> l]
JNull == [type |-> "null", val |-> <<>>]
StrOf(j) == j.val[1]

\* allowed_commands: logical command key -> invocation template.
allowed_commands ==
    (<<"iw">> :> << <<"iw">>, <<"dev">>, <<"wlan0">>, <<"interface">>, <<"add">>,
                    <<"xap0">>, <<"type">>, <<"__ap">> >>)
    @@ (<<"ip_link">> :> << <<"ip">>, <<"link">> >>)
    @@ (<<"ip_addr">> :> << <<"ip">>, <<"addr">> >>)
    @@ (<<"hostapd">> :> << <<"hostapd">> >>)
    @@ (<<"dnsmasq">> :> << <<"dnsmasq">> >>)
    @@ (<<"mkdir">> :> << <<"mkdir">>, <<"-p">> >>)
    @@ (<<"chown">> :> << <<"chown">> >>)
    @@ (<<"systemctl">> :> << <<"systemctl">> >>)

\* The programs execvp finds on the daemon's PATH: the templates'
\* executables and, from wireless-tools, iwconfig.
Installed ==
    {allowed_commands[k][1] : k \in DOMAIN allowed_commands} \cup {<<"iw", "config">>}

\* What a subprocess can do: exit with a code, or outlive timeout=30.
ExitCodes == {0, 1}
Outcomes == [rc : ExitCodes, timeout : BOOLEAN]

\* The "error" member of a response: absent, f"Command not allowed: {command}"
\* or str(e) of the exception named exc.
NoError == [kind |-> "absent", cmd |-> JNull, exc |-> ""]
NotAllowed(command) == [kind |-> "Command not allowed: ", cmd |-> command, exc |-> ""]
ExcText(e) == [kind |-> "str(e)", cmd |-> JNull, exc |-> e]

\* A response: returncode and request_id are <<>> when the member is absent.
Response(success, returncode, error) ==
    [success |-> success, returncode |-> returncode, error |-> error, request_id |-> <<>>]

\* ------------------------------------------------------------------ broker: run_command

\* `command not in allowed_commands.keys()` hashes command: a list raises TypeError.
Hashable(command) == command.type # "list"

\* Mutant of IsAllowedKey: membership by prefix, not by exact key.
IsAllowedKey_prefix(command) ==
    /\ command.type = "str"
    /\ StrOf(command) # <<>>
    /\ \E k \in DOMAIN allowed_commands : Head(StrOf(command)) = Head(k)

\* Membership in the allow-list, by exact key.
IsAllowedKey(command) ==
    command.type = "str" /\ StrOf(command) \in DOMAIN allowed_commands

\* `cmd = command + args` with command a str: defined for a str only.
CanConcat(command, args) == command.type = "str" /\ args.type = "str"
Concat(command, args) == StrOf(command) \o StrOf(args)

\* subprocess.run(cmd, capture_output=True, text=True, timeout=30) with cmd a
\* str: the program named cmd, run without arguments.
\* The result: the exception that escapes run_command ("" for none), the
\* dict it returns and the subprocesses it started.
run_command(command, args, out) ==
    IF ~Hashable(command)
    THEN [raised |-> "TypeError", response |-> Response(FALSE, <<>>, NoError), started |-> <<>>]
    ELSE IF ~IsAllowedKey(command)
    THEN [raised |-> "", response |-> Response(FALSE, <<>>, NotAllowed(command)),
          started |-> <<>>]
    ELSE IF ~CanConcat(command, args)
    THEN [raised |-> "", response |-> Response(FALSE, <<>>, ExcText("TypeError")),
          started |-> <<>>]
    ELSE IF Concat(command, args) \notin Installed
    THEN [raised |-> "", response |-> Response(FALSE, <<>>, ExcText("FileNotFoundError")),
          started |-> <<>>]
    ELSE IF out.timeout
    THEN [raised |-> "", response |-> Response(FALSE, <<>>, ExcText("TimeoutExpired")),
          started |-> << [argv |-> <<Concat(command, args)>>, out |-> out] >>]
    ELSE [raised |-> "", response |-> Response(out.rc = 0, <<out.rc>>, NoError),
          started |-> << [argv |-> <<Concat(command, args)>>, out |-> out] >>]

\* ------------------------------------------------------------------ broker: the wire

\* What conn.recv(4096) returns, by what json.loads and request.get make of
\* it: no bytes, text that is no JSON, JSON that is no object, or an object
\* with or without its id, command and args members.
Data(kind, id, command, args) ==
    [kind |-> kind, id |-> id, command |-> command, args |-> args]
NoData == Data("empty", <<>>, <<>>, <<>>)

\* request.get('command'), request.get('args', []), request.get('id', 'unknown')
GetCommand(data) == IF data.command = <<>> THEN JNull ELSE data.command[1]
GetArgs(data) == IF data.args = <<>> THEN JList(<<>>) ELSE data.args[1]
GetId(data) == IF data.id = <<>> THEN <<"unknown">> ELSE data.id[1]

\* The commands and args the model's clients send.
Commands ==
    {JStr(<<"ip_link">>), JStr(<<"iw">>), JStr(<<"rm">>), JStr(<<"iw", "config">>),
     JList(<< <<"ip">>, <<"link">> >>), JNull}
ArgValues ==
    {JList(<< <<"set">>, <<"wlan0">>, <<"up">> >>), JList(<<>>),
     JStr(<<"config">>), JStr(<<>>), JNull}

\* Bytes a peer that is not APManagerClient may write.
RawData ==
    {NoData, Data("malformed", <<>>, <<>>, <<>>), Data("nondict", <<>>, <<>>, <<>>),
     Data("object", <<>>, <<JStr(<<"rm">>)>>, <<>>),
     Data("object", <<>>, <<>>, <<JList(<<>>)>>)}

\* The outcome of a client call: nothing yet, waiting in the recv loop, an
\* exception raised to the caller, or the dict returned to the caller.
NoResult == [kind |-> "none", exc |-> "", value |-> <<>>]
Waiting == [kind |-> "waiting", exc |-> "", value |-> <<>>]
\* Mutant of Raised: the exception is turned into a dict with success false.
Raised_as_dict(e) ==
    [kind |-> "returned", exc |-> "", value |-> <<Response(FALSE, <<>>, ExcText(e))>>]
Raised(e) == [kind |-> "raised", exc |-> e, value |-> <<>>]
Returned(response) == [kind |-> "returned", exc |-> "", value |-> <<response>>]

\* APManagerDaemon.__init__: running, no socket yet. Nothing has called the
\* client. The socket path may be left over from an earlier daemon (paths:
\* whether it can be).
InitBroker(paths) ==
    /\ conn = [c \in Conns |-> [st |-> "unused", data |-> NoData, sent |-> <<>>]]
    /\ spawned = [c \in Conns |-> <<>>]
    /\ request_id = 0
    /\ result = [c \in Conns |-> NoResult]
    /\ running = TRUE
    /\ socket = "None"
    /\ sockpath \in paths
    /\ daemon = "init"
    /\ entry = "none"
    /\ starts = 0

\* Mutant of next_request_id: the id is not advanced.
next_request_id_same(n) == n

\* self.request_id += 1
next_request_id(n) == n + 1

\* APManagerClient._send_request up to its recv loop: without the socket
\* path, ConnectionError("Daemon not running") before anything else; with
\* it, the next id, the request object, connect (refused when nothing
\* listens on the path) and send.
send_request(c, command, args) ==
    /\ conn[c].st = "unused"
    /\ result[c].kind = "none"
    /\ IF ~sockpath
       THEN /\ result' = [result EXCEPT ![c] = Raised("ConnectionError: Daemon not running")]
            /\ UNCHANGED <<request_id, conn>>
       ELSE /\ request_id' = next_request_id(request_id)
            /\ IF socket = "listening"
               THEN /\ conn' = [conn EXCEPT ![c] =
                                  [st |-> "connected",
                                   data |-> Data("object",
                                                 << <<"req_", ToString(next_request_id(request_id))>> >>,
                                                 <<command>>, <<args>>),
                                   sent |-> <<>>]]
                    /\ result' = [result EXCEPT ![c] = Waiting]
               ELSE /\ result' = [result EXCEPT ![c] = Raised("ConnectionRefusedError")]
                    /\ UNCHANGED conn
    /\ UNCHANGED <<lockvars, privvars, sigvars, tmpvars, nestvars, fsvars, clientvars, spawned, daemonvars>>

\* Another peer connects and writes bytes of its own.
raw_send(c, data) ==
    /\ conn[c].st = "unused"
    /\ result[c].kind = "none"
    /\ socket = "listening"
    /\ conn' = [conn EXCEPT ![c] = [st |-> "connected", data |-> data, sent |-> <<>>]]
    /\ UNCHANGED <<lockvars, privvars, sigvars, tmpvars, nestvars, fsvars, clientvars, spawned, request_id, result, daemonvars>>

\* What the client's recv loop ends with when the daemon's end of the
\* connection went away without a response: end of stream, so json.loads of
\* no text, or a reset.
LostExceptions == {"JSONDecodeError", "ConnectionResetError"}

\* The recv loop of _send_request ends when the peer closed the connection:
\* json.loads of what was received is returned, or raises.
recv_response(c, e) ==
    /\ result[c].kind = "waiting"
    /\ conn[c].st \in {"closed", "aborted", "refused"}
    /\ result' = [result EXCEPT ![c] =
                    IF conn[c].sent = <<>> THEN Raised(e)
                    ELSE Returned(conn[c].sent[1])]
    /\ UNCHANGED <<lockvars, privvars, sigvars, tmpvars, nestvars, fsvars, clientvars, conn, spawned, request_id, daemonvars>>

\* sock.settimeout(30): a recv that gets nothing in time raises; the
\* client's socket goes away with the exception.
recv_timeout(c) ==
    /\ result[c].kind = "waiting"
    /\ conn[c].st \in {"connected", "accepted"}
    /\ result' = [result EXCEPT ![c] = Raised("timeout")]
    /\ UNCHANGED <<lockvars, privvars, sigvars, tmpvars, nestvars, fsvars, clientvars, conn, spawned, request_id, daemonvars>>

\* The client gave up on the connection and closed its end.
PeerGone(c) == result[c].kind = "raised"

\* ------------------------------------------------------------------ broker: handle_client

\* The response handle_client sends for a request that run_command answered.
WithId(response, id) == [response EXCEPT !.request_id = <<id>>]

\* except Exception as e: the structured error, without request_id.
ErrorReply(e) == Response(FALSE, <<>>, ExcText(e))

\* A text chunk that stands for RecvSize characters, and the length of a chunk.
Pad == "x * 4096"
ChunkLen(s) == IF s = Pad THEN RecvSize ELSE Len(s)

RECURSIVE StrLen(_)
StrLen(chunks) == IF chunks = <<>> THEN 0 ELSE ChunkLen(Head(chunks)) + StrLen(Tail(chunks))

RECURSIVE ItemsLen(_)
ItemsLen(l) ==
    IF l = <<>> THEN 0
    ELSE 2 + StrLen(Head(l)) + (IF Len(l) > 1 THEN 2 ELSE 0) + ItemsLen(Tail(l))

\* len(json.dumps(value)) for a string, a list of strings and null
JsonLen(j) ==
    IF j.type = "str" THEN 2 + StrLen(StrOf(j))
    ELSE IF j.type = "list" THEN 2 + ItemsLen(j.val)
    ELSE 4

\* len(json.dumps({"id": ..., "command": ..., "args": ...}).encode()) of the
\* client's request
Size(data) ==
    31 + (2 + StrLen(data.id[1])) + JsonLen(data.command[1]) + JsonLen(data.args[1])

\* data = conn.recv(4096), called once: of a client request longer than
\* RecvSize bytes the handler has a proper prefix, which is no JSON text.
recv(data) ==
    IF data.kind = "object" /\ data.id # <<>> /\ Size(data) > RecvSize
    THEN Data("malformed", <<>>, <<>>, <<>>)
    ELSE data

\* What the handler writes to the connection before closing it.
Replies(data, r) ==
    IF data.kind = "empty" THEN <<>>
    ELSE IF data.kind = "malformed" THEN <<ErrorReply("JSONDecodeError")>>
    ELSE IF data.kind = "nondict" THEN <<ErrorReply("AttributeError")>>
    ELSE IF r.raised # "" THEN <<ErrorReply(r.raised)>>
    ELSE <<WithId(r.response, GetId(data))>>

\* The handler thread, from conn.recv to conn.close. With the peer gone,
\* conn.send raises BrokenPipeError, and so does the conn.send of the
\* except clause: nothing is written.
handle_client(c, out) ==
    /\ conn[c].st = "accepted"
    /\ LET data == recv(conn[c].data)
           r == run_command(GetCommand(data), GetArgs(data), out)
       IN /\ conn' = [conn EXCEPT ![c] =
                        [st |-> "closed", data |-> conn[c].data,
                         sent |-> IF PeerGone(c) THEN <<>> ELSE Replies(data, r)]]
          /\ spawned' = [spawned EXCEPT ![c] =
                           IF data.kind = "object" THEN r.started ELSE <<>>]
    /\ UNCHANGED <<lockvars, privvars, sigvars, tmpvars, nestvars, fsvars, clientvars, request_id, result, daemonvars>>

\* ------------------------------------------------------------------ broker: the daemon's main thread

\* Connections waiting in the listen queue are dropped with the socket.
DropBacklog(cn) ==
    [c \in Conns |-> IF cn[c].st = "connected" THEN [cn[c] EXCEPT !.st = "refused"]
                     ELSE cn[c]]

\* Handler threads are daemon threads: the interpreter does not wait for
\* them when the main thread ends, and their connections close unanswered.
KillHandlers(cn) ==
    [c \in Conns |-> IF cn[c].st = "accepted" THEN [cn[c] EXCEPT !.st = "aborted"]
                     ELSE cn[c]]

\* start() up to the accept loop: unlink an old socket path, bind, listen.
start ==
    /\ daemon = "init"
    /\ socket' = "listening"
    /\ sockpath' = TRUE
    /\ daemon' = "loop"
    /\ UNCHANGED <<lockvars, privvars, sigvars, tmpvars, nestvars, fsvars, clientvars, conn, spawned, request_id, result, running>>

\* One turn of the accept loop: accept, start the handler thread.
accept(c) ==
    /\ daemon = "loop"
    /\ running
    /\ socket = "listening"
    /\ conn[c].st = "connected"
    /\ conn' = [conn EXCEPT ![c].st = "accepted"]
    /\ UNCHANGED <<lockvars, privvars, sigvars, tmpvars, nestvars, fsvars, clientvars, spawned, request_id, result, daemonvars>>

\* SIGTERM or SIGINT, delivered to the main thread.
handle_signal ==
    /\ daemon \in {"init", "loop"}
    /\ running' = FALSE
    /\ socket' = IF socket = "None" THEN "None" ELSE "closed"
    /\ conn' = IF socket = "listening" THEN DropBacklog(conn) ELSE conn
    /\ UNCHANGED <<lockvars, privvars, sigvars, tmpvars, nestvars, fsvars, clientvars, spawned, request_id, result, sockpath, daemon>>

\* The accept loop ends (running is false, or accept raised OSError on the
\* closed socket) and start() returns.
start_return ==
    /\ daemon = "loop"
    /\ ~running
    /\ daemon' = "stopping"
    /\ UNCHANGED <<lockvars, privvars, sigvars, tmpvars, nestvars, fsvars, clientvars, conn, spawned, request_id, result, running, socket, sockpath>>

\* main() returns and the process ends: what is left of the listening
\* socket and of the handler threads goes with it. The socket path stays.
process_exit ==
    /\ daemon = "stopping"
    /\ daemon' = "stopped"
    /\ socket' = "closed"
    /\ conn' = KillHandlers(DropBacklog(conn))
    /\ UNCHANGED <<lockvars, privvars, sigvars, tmpvars, nestvars, fsvars, clientvars, spawned, request_id, result, running, sockpath>>

\* ------------------------------------------------------------------ broker: the client's entry

\* `systemctl is-active ap_manager_daemon` returns 0
is_active == daemon \in {"loop", "stopping"}

\* ensure_daemon_running: the `systemctl start` commands run for an
\* is-active result
start_commands(active) == IF active THEN 0 ELSE 1

\* ensure_daemon_running(), the module-level function the __main__ block
\* calls before it creates the client
ensure_daemon_running ==
    /\ entry = "none"
    /\ entry' = "ensured"
    /\ starts' = starts + start_commands(is_active)
    /\ UNCHANGED <<lockvars, brokervars, privvars, tmpvars, nestvars, fsvars, sigvars>>

\* APManagerClient.__enter__: self.ensure_daemon_running() looks the name
\* up on the instance, which has no such attribute
enter ==
    /\ entry = "none"
    /\ entry' = "AttributeError"
    /\ UNCHANGED <<lockvars, brokervars, privvars, tmpvars, nestvars, fsvars, sigvars, starts>>

\* ------------------------------------------------------------------ privileges: the probes

required_commands == {"iw", "ip", "hostapd", "dnsmasq"}
test_commands == {"iw", "ip", "hostapd", "dnsmasq"}
\* A command that run_command may be given and that has no test command.
OtherCommands == {"brctl"}

\* What one required command answers: shutil.which finds it or not, the
\* test command without sudo and the test command under sudo end with exit
\* code 0 ("ok"), another exit code ("fail") or an exception ("exc":
\* FileNotFoundError, TimeoutExpired). A command that which() does not find
\* cannot be started; "unrun" stands for a sudo probe the code never runs.
ProbeCases ==
    { [available |-> FALSE, plain |-> "exc", sudo |-> "unrun"],
      [available |-> TRUE, plain |-> "ok", sudo |-> "unrun"],
      [available |-> TRUE, plain |-> "exc", sudo |-> "unrun"],
      [available |-> TRUE, plain |-> "fail", sudo |-> "ok"],
      [available |-> TRUE, plain |-> "fail", sudo |-> "fail"],
      [available |-> TRUE, plain |-> "fail", sudo |-> "exc"] }

\* The environments a PrivilegeManager may be constructed in: os.geteuid()
\* == 0, `sudo -n true`, which('pkexec'), which('systemd-run'), the commands.
Envs ==
    [is_root : BOOLEAN, sudo_available : BOOLEAN, pkexec_available : BOOLEAN,
     systemd_run : BOOLEAN, commands : [required_commands -> ProbeCases]]

\* The daemon's environment: root, every command in place.
RootEnv ==
    [is_root |-> TRUE, sudo_available |-> TRUE, pkexec_available |-> FALSE,
     systemd_run |-> FALSE,
     commands |-> [cmd \in required_commands |->
                     [available |-> TRUE, plain |-> "ok", sudo |-> "unrun"]]]

\* _check_command_needs_root(cmd) in environment e.
check_command_needs_root(cmd, e) ==
    IF cmd \notin test_commands THEN TRUE
    ELSE LET p == e.commands[cmd]
         IN IF p.plain = "exc" THEN TRUE
            ELSE IF p.plain = "ok" THEN FALSE
            ELSE IF p.sudo = "exc" THEN TRUE
            ELSE p.sudo = "ok"

\* check_commands(): 'available' and 'needs_root' of every required command.
check_commands(e) ==
    [cmd \in required_commands |->
        [available |-> e.commands[cmd].available,
         needs_root |-> check_command_needs_root(cmd, e)]]

\* any(self.check_commands().values()): each value is a dict with three
\* keys, which is true.
AnyCommand(e) == \E cmd \in DOMAIN check_commands(e) : TRUE

\* Mutant of can_run_without_root: commands that are not available count too.
can_run_without_root_all(e) ==
    \A cmd \in DOMAIN check_commands(e) : ~check_commands(e)[cmd].needs_root

\* all(not info['needs_root'] for info in ... if info['available'])
can_run_without_root(e) ==
    \A cmd \in DOMAIN check_commands(e) :
        check_commands(e)[cmd].available => ~check_commands(e)[cmd].needs_root

\* ------------------------------------------------------------------ privileges: elevation

\* Mutant of request_elevation: systemd-run is tried whenever sudo is not usable.
request_elevation_fallback(e) ==
    IF e.sudo_available THEN "sudo" ELSE "systemd-run"

\* _request_elevation(): the backend method it calls, "none" for none.
request_elevation(e) ==
    IF e.sudo_available THEN "sudo"
    ELSE IF e.pkexec_available THEN "systemd-run"
    ELSE "none"

\* _elevate_with_sudo(): os.execvp replaces the process image, or raises
\* OSError; the `return False` after it is never reached.
elevate_with_sudo(exec_ok) ==
    IF exec_ok THEN [st |-> "replaced", res |-> "none"]
    ELSE [st |-> "raised", res |-> "OSError"]

\* _elevate_with_systemd_run(): False without systemd-run or when it exits
\* with a code other than 0, True otherwise.
elevate_with_systemd_run(e, rc) ==
    IF ~e.systemd_run THEN [st |-> "returned", res |-> "False"]
    ELSE IF rc # 0 THEN [st |-> "returned", res |-> "False"]
    ELSE [st |-> "returned", res |-> "True"]

\* The part of elevate_if_needed after "Need to elevate".
Elevation(e, exec_ok, rc) ==
    LET b == request_elevation(e)
        r == IF b = "sudo" THEN elevate_with_sudo(exec_ok)
             ELSE IF b = "systemd-run" THEN elevate_with_systemd_run(e, rc)
             ELSE [st |-> "returned", res |-> "False"]
    IN [st |-> r.st, res |-> r.res, be |-> b]

NoCall == [fn |-> "none", pos |-> "idle", res |-> "none"]

InitPriv(envs) ==
    /\ env \in envs
    /\ probed = <<>>
    /\ estate = "Probed"
    /\ backend = "none"
    /\ eresult = "none"
    /\ caller = "none"
    /\ tmpfiles = {}
    /\ ecall = NoCall

\* One call of _check_command_needs_root, as check_commands and run_command
\* make it.
probe_command(cmd) ==
    /\ estate = "Probed"
    /\ probed' = << [cmd |-> cmd, needs_root |-> check_command_needs_root(cmd, env)] >>
    /\ UNCHANGED <<lockvars, brokervars, sigvars, tmpvars, nestvars, fsvars, clientvars, env, estate, backend, eresult, caller>>

\* elevate_if_needed(), to its return, its exception or the new process image.
elevate_if_needed(exec_ok, rc) ==
    /\ estate = "Probed"
    /\ LET r == IF env.is_root THEN [st |-> "returned", res |-> "True", be |-> "none"]
                ELSE IF ~AnyCommand(env)
                THEN [st |-> "returned", res |-> "False", be |-> "none"]
                ELSE IF can_run_without_root(env)
                THEN [st |-> "returned", res |-> "True", be |-> "none"]
                ELSE Elevation(env, exec_ok, rc)
       IN /\ estate' = r.st
          /\ eresult' = r.res
          /\ backend' = r.be
    /\ UNCHANGED <<lockvars, brokervars, sigvars, tmpvars, nestvars, fsvars, clientvars, env, probed, caller>>

\* main(): sys.exit(1) on a false result; an exception ends the process
\* with a traceback and exit status 1.
main ==
    /\ estate \in {"returned", "raised"}
    /\ caller' = IF estate = "raised" THEN "main: uncaught OSError"
                 ELSE IF eresult = "False" THEN "main: sys.exit(1)"
                 ELSE "main: proceeds"
    /\ estate' = "done"
    /\ UNCHANGED <<lockvars, brokervars, sigvars, tmpvars, nestvars, fsvars, clientvars, env, probed, backend, eresult>>

\* The wrapper of require_network_privileges: PermissionError on a false
\* result, the decorated function otherwise.
require_network_privileges ==
    /\ estate \in {"returned", "raised"}
    /\ caller' = IF estate = "raised" THEN "wrapper: OSError"
                 ELSE IF eresult = "False" THEN "wrapper: PermissionError"
                 ELSE "wrapper: proceeds"
    /\ estate' = "done"
    /\ UNCHANGED <<lockvars, brokervars, sigvars, tmpvars, nestvars, fsvars, clientvars, env, probed, backend, eresult>>

\* ------------------------------------------------------------------ privileges: temporary files

\* How the child of subprocess.run ends for its caller.
ChildOutcomes == {"success", "nonzero", "timeout", "exception"}

\* No backend function is running.
BetweenCalls == ecall.pos \in {"idle", "returned", "raised"}

\* _elevate_with_pkexec up to the try block: the shell wrapper is written
\* with delete=False and made executable.
pkexec_create ==
    /\ BetweenCalls
    /\ ecall' = [fn |-> "_elevate_with_pkexec", pos |-> "created", res |-> "none"]
    /\ tmpfiles' = tmpfiles \cup {"shell_wrapper"}
    /\ UNCHANGED <<lockvars, brokervars, sigvars, clientvars, fsvars, nestvars, privvars>>

\* subprocess.run(['pkexec', shell_file.name, ...], timeout=30) starts the child
pkexec_spawn ==
    /\ ecall.fn = "_elevate_with_pkexec" /\ ecall.pos = "created"
    /\ ecall' = [ecall EXCEPT !.pos = "spawned"]
    /\ UNCHANGED <<lockvars, brokervars, sigvars, clientvars, fsvars, nestvars, privvars, tmpfiles>>

\* The rest of _elevate_with_pkexec: True on exit status 0, False on any
\* other status, on TimeoutExpired and on any exception; the finally block
\* unlinks the wrapper.
pkexec_finish(outcome) ==
    /\ ecall.fn = "_elevate_with_pkexec" /\ ecall.pos = "spawned"
    /\ ecall' = [ecall EXCEPT !.pos = "returned",
                              !.res = IF outcome = "success" THEN "True" ELSE "False"]
    /\ tmpfiles' = tmpfiles \ {"shell_wrapper"}
    /\ UNCHANGED <<lockvars, brokervars, sigvars, clientvars, fsvars, nestvars, privvars>>

\* _elevate_with_systemd_run without systemd-run: False before any file is
\* written.
systemd_run_missing ==
    /\ BetweenCalls
    /\ ~env.systemd_run
    /\ ecall' = [fn |-> "_elevate_with_systemd_run", pos |-> "returned", res |-> "False"]
    /\ UNCHANGED <<lockvars, brokervars, sigvars, clientvars, fsvars, nestvars, privvars, tmpfiles>>

\* _elevate_with_systemd_run up to the try block: the service unit is
\* written with delete=False.
systemd_run_create ==
    /\ BetweenCalls
    /\ env.systemd_run
    /\ ecall' = [fn |-> "_elevate_with_systemd_run", pos |-> "created", res |-> "none"]
    /\ tmpfiles' = tmpfiles \cup {"service_unit"}
    /\ UNCHANGED <<lockvars, brokervars, sigvars, clientvars, fsvars, nestvars, privvars>>

\* subprocess.run(['systemd-run', ...]) starts the child; no timeout is given
systemd_run_spawn ==
    /\ ecall.fn = "_elevate_with_systemd_run" /\ ecall.pos = "created"
    /\ ecall' = [ecall EXCEPT !.pos = "spawned"]
    /\ UNCHANGED <<lockvars, brokervars, sigvars, clientvars, fsvars, nestvars, privvars, tmpfiles>>

\* The rest of _elevate_with_systemd_run: True on exit status 0, False on
\* any other; an exception leaves the function after the finally block,
\* which unlinks the unit file.
systemd_run_finish(outcome) ==
    /\ ecall.fn = "_elevate_with_systemd_run" /\ ecall.pos = "spawned"
    /\ outcome # "timeout"
    /\ ecall' = IF outcome = "exception"
                THEN [ecall EXCEPT !.pos = "raised", !.res = "exception"]
                ELSE [ecall EXCEPT !.pos = "returned",
                                   !.res = IF outcome = "success" THEN "True" ELSE "False"]
    /\ tmpfiles' = tmpfiles \ {"service_unit"}
    /\ UNCHANGED <<lockvars, brokervars, sigvars, clientvars, fsvars, nestvars, privvars>>

\* _create_polkit_action: tempfile.mkstemp, the policy text written, the
\* path returned.
create_polkit_action ==
    /\ BetweenCalls
    /\ ecall' = [fn |-> "_create_polkit_action", pos |-> "returned", res |-> "path"]
    /\ tmpfiles' = tmpfiles \cup {"policy_file"}
    /\ UNCHANGED <<lockvars, brokervars, sigvars, clientvars, fsvars, nestvars, privvars>>

\* ------------------------------------------------------------------ signals: SignalHandler

\* Two processes that each constructed a SignalHandler: sc is a child of sp,
\* the parent of sp is outside (a shell).
SigProcs == {"sp", "sc"}
Signals == {"SIGINT", "SIGUSR1", "SIGUSR2"}
\* for sig, handler in self.original_handlers.items(): insertion order.
RestoreOrder == <<"SIGINT", "SIGUSR1", "SIGUSR2">>

\* Mutant of PathOf: only SIGINT exits cleanly.
PathOf_sigint(sig) == IF sig = "SIGINT" THEN "clean_exit" ELSE "die"

\* handle_signal: SIGINT and SIGUSR1 call clean_exit(), SIGUSR2 calls die().
PathOf(sig) ==
    IF sig \in {"SIGINT", "SIGUSR1"} THEN "clean_exit" ELSE "die"

\* Where a path starts: clean_exit with os.kill, die with restore_handlers.
FirstPos(path) == IF path = "clean_exit" THEN 0 ELSE 1

\* setup_signal_handlers() has run in both processes; nothing was sent yet.
InitSignals ==
    /\ shandlers = [p \in SigProcs |-> [sig \in Signals |-> "handle_signal"]]
    /\ pending = [p \in SigProcs |-> {}]
    /\ frames = [p \in SigProcs |-> <<>>]
    /\ status = [p \in SigProcs |-> "running"]
    /\ received = [p \in SigProcs |-> <<>>]
    /\ notified = [p \in SigProcs |-> 0]
    /\ cleaned = [p \in SigProcs |-> 0]
    /\ external = 0

\* The innermost running handler of p is at position pos: 0 os.kill,
\* 1..3 the signal.signal calls of restore_handlers, 4 cleanup, 5 sys.exit.
At(p, pos) ==
    /\ status[p] = "running"
    /\ frames[p] # <<>>
    /\ frames[p][Len(frames[p])].pos = pos
Path(p) == frames[p][Len(frames[p])].path
Advance(p) ==
    [frames EXCEPT ![p][Len(frames[p])].pos = frames[p][Len(frames[p])].pos + 1]

\* A signal is sent to p from outside.
send_signal(p, sig) ==
    /\ status[p] = "running"
    /\ external < MaxSignals
    /\ external' = external + 1
    /\ pending' = [pending EXCEPT ![p] = pending[p] \cup {sig}]
    /\ UNCHANGED <<lockvars, brokervars, privvars, tmpvars, nestvars, fsvars, clientvars,
                   shandlers, frames, status, received, notified, cleaned>>

\* A pending signal whose disposition is handle_signal: the handler is
\* called in the main thread, on top of what runs there.
sh_handle_signal(p, sig) ==
    /\ status[p] = "running"
    /\ sig \in pending[p]
    /\ shandlers[p][sig] = "handle_signal"
    /\ pending' = [pending EXCEPT ![p] = pending[p] \ {sig}]
    /\ frames' = [frames EXCEPT ![p] =
                    Append(frames[p], [path |-> PathOf(sig), pos |-> FirstPos(PathOf(sig))])]
    /\ received' = [received EXCEPT ![p] = Append(received[p], sig)]
    /\ UNCHANGED <<lockvars, brokervars, privvars, tmpvars, nestvars, fsvars, clientvars,
                   shandlers, status, notified, cleaned, external>>

\* A pending signal whose disposition was restored: default_int_handler
\* raises KeyboardInterrupt for SIGINT, SIG_DFL ends the process for the
\* two user signals.
original_disposition(p, sig) ==
    /\ status[p] = "running"
    /\ sig \in pending[p]
    /\ shandlers[p][sig] = "original"
    /\ status' = [status EXCEPT ![p] =
                    IF sig = "SIGINT" THEN "KeyboardInterrupt" ELSE "killed"]
    /\ pending' = [pending EXCEPT ![p] = {}]
    /\ frames' = [frames EXCEPT ![p] = <<>>]
    /\ UNCHANGED <<lockvars, brokervars, privvars, tmpvars, nestvars, fsvars, clientvars,
                   shandlers, received, notified, cleaned, external>>

\* clean_exit: os.getpid() != os.getppid(), so os.kill(os.getppid(),
\* SIGUSR2). The parent of sc is sp while sp runs.
clean_exit_kill(p) ==
    /\ At(p, 0)
    /\ notified' = [notified EXCEPT ![p] = notified[p] + 1]
    /\ pending' = IF p = "sc" /\ status["sp"] = "running"
                  THEN [pending EXCEPT !["sp"] = pending["sp"] \cup {"SIGUSR2"}]
                  ELSE pending
    /\ frames' = Advance(p)
    /\ UNCHANGED <<lockvars, brokervars, privvars, tmpvars, nestvars, fsvars, clientvars,
                   shandlers, status, received, cleaned, external>>

\* restore_handlers: one signal.signal(sig, handler) of its loop.
restore_handlers(p) ==
    /\ \E i \in 1..Len(RestoreOrder) :
          /\ At(p, i)
          /\ shandlers' = [shandlers EXCEPT ![p][RestoreOrder[i]] = "original"]
    /\ frames' = Advance(p)
    /\ UNCHANGED <<lockvars, brokervars, privvars, tmpvars, nestvars, fsvars, clientvars,
                   pending, status, received, notified, cleaned, external>>

\* cleanup(): pass.
cleanup(p) ==
    /\ At(p, 4)
    /\ cleaned' = [cleaned EXCEPT ![p] = cleaned[p] + 1]
    /\ frames' = Advance(p)
    /\ UNCHANGED <<lockvars, brokervars, privvars, tmpvars, nestvars, fsvars, clientvars,
                   shandlers, pending, status, received, notified, external>>

\* sys.exit(0) of clean_exit, sys.exit(1) of die: SystemExit ends the process.
sys_exit(p) ==
    /\ At(p, 5)
    /\ status' = [status EXCEPT ![p] = IF Path(p) = "clean_exit" THEN "exit 0" ELSE "exit 1"]
    /\ frames' = [frames EXCEPT ![p] = <<>>]
    /\ pending' = [pending EXCEPT ![p] = {}]
    /\ UNCHANGED <<lockvars, brokervars, privvars, tmpvars, nestvars, fsvars, clientvars,
                   shandlers, received, notified, cleaned, external>>

\* What process p does on its own once a signal is pending.
SignalStep(p) ==
    \/ \E sig \in Signals : sh_handle_signal(p, sig)
    \/ \E sig \in Signals : original_disposition(p, sig)
    \/ clean_exit_kill(p)
    \/ restore_handlers(p)
    \/ cleanup(p)
    \/ sys_exit(p)

\* ------------------------------------------------------------------ specifications

\* One single-threaded process using the whole LockManager interface:
\* mutex_lock, mutex_unlock (also more often than mutex_lock) and
\* cleanup_lock, after any outcome of the constructor. The process nests
\* while its counter is below MaxDepth.
Init ==
    /\ InitLockManager([p \in Procs |-> IF p = "p1" THEN InitOutcomes ELSE {"ok"}])
    /\ InitBroker({FALSE})
    /\ InitPriv({RootEnv})
    /\ InitSignals

Next ==
    \E t \in {"p1a"} :
         \/ /\ ReadCounter(cfile[ProcOf(t)]) < MaxDepth
            /\ mutex_lock_call(t)
         \/ mutex_lock(t)
         \/ mutex_unlock_call(t)
         \/ mutex_unlock(t)
         \/ cleanup_lock(t)

Spec == Init /\ [][Next]_vars

\* Two single-threaded processes, each bracketing critical sections with
\* mutex_lock() ... mutex_unlock(), nested up to MaxNest deep.
InitProcs ==
    /\ InitLockManager([p \in Procs |-> InitOutcomes])
    /\ InitBroker({FALSE})
    /\ InitPriv({RootEnv})
    /\ InitSignals

NextProcs ==
    \E t \in {"p1a", "p2a"} :
         \/ /\ depth[t] < MaxNest
            /\ mutex_lock_call(t)
         \/ mutex_lock(t)
         \/ /\ depth[t] > 0
            /\ mutex_unlock_call(t)
         \/ mutex_unlock(t)

SpecProcs == InitProcs /\ [][NextProcs]_vars

\* Two threads of process p1 sharing its LockManager, and process p2, each
\* bracketing critical sections nested up to MaxThreadNest deep (and only
\* while the counter is below MaxThreadCount: lost updates let it drift).
InitThreads ==
    /\ InitLockManager([p \in Procs |-> {"ok"}])
    /\ InitBroker({FALSE})
    /\ InitPriv({RootEnv})
    /\ InitSignals

NextThreads ==
    \E t \in Threads :
         \/ /\ depth[t] < MaxThreadNest
            /\ ReadCounter(cfile[ProcOf(t)]) < MaxThreadCount
            /\ mutex_lock_call(t)
         \/ mutex_lock(t)
         \/ /\ depth[t] > 0
            /\ mutex_unlock_call(t)
         \/ mutex_unlock(t)

SpecThreads == InitThreads /\ [][NextThreads]_vars

\* The daemon serving connections: APManagerClient requests and raw peers.
InitDaemon ==
    /\ InitLockManager([p \in Procs |-> {"ok"}])
    /\ InitBroker({FALSE})
    /\ InitPriv({RootEnv})
    /\ InitSignals

NextDaemon ==
    \/ start
    \/ \E c \in Conns, command \in Commands, args \in ArgValues : send_request(c, command, args)
    \/ \E c \in Conns, data \in RawData : raw_send(c, data)
    \/ \E c \in Conns : accept(c)
    \/ \E c \in Conns, out \in Outcomes : handle_client(c, out)

SpecDaemon == InitDaemon /\ [][NextDaemon]_vars

\* The daemon from start() to the end of its process, with clients calling
\* _send_request at any time and termination signals arriving at any time.
ServiceCommands == {JStr(<<"iw">>), JStr(<<"rm">>)}
ServiceArgs == {JList(<<>>), JStr(<<>>)}
ServiceRawData == {NoData, Data("malformed", <<>>, <<>>, <<>>)}

InitService ==
    /\ InitLockManager([p \in Procs |-> {"ok"}])
    /\ InitBroker(BOOLEAN)
    /\ InitPriv({RootEnv})
    /\ InitSignals

NextService ==
    \/ start
    \/ \E c \in Conns, command \in ServiceCommands, args \in ServiceArgs :
          send_request(c, command, args)
    \/ \E c \in Conns, data \in ServiceRawData : raw_send(c, data)
    \/ \E c \in Conns, e \in LostExceptions : recv_response(c, e)
    \/ \E c \in Conns : recv_timeout(c)
    \/ \E c \in Conns : accept(c)
    \/ \E c \in Conns, out \in Outcomes : handle_client(c, out)
    \/ handle_signal
    \/ start_return
    \/ process_exit

SpecService == InitService /\ [][NextService]_vars

\* Two single-threaded processes that nest mutex_lock() and mutex_unlock()
\* up to MaxNest deep and may end at any point. A process inside a call
\* goes on executing it: the scheduler runs every runnable process, and the
\* kernel grants a free flock to a waiting caller.
NextFair ==
    \E t \in {"p1a", "p2a"} :
         \/ /\ depth[t] < MaxNest
            /\ mutex_lock_call(t)
         \/ mutex_lock(t)
         \/ /\ depth[t] > 0
            /\ mutex_unlock_call(t)
         \/ mutex_unlock(t)
         \/ \E clean \in BOOLEAN : exit(ProcOf(t), clean)

SpecFair ==
    /\ InitDaemon
    /\ [][NextFair]_vars
    /\ \A t \in {"p1a", "p2a"} : WF_vars(mutex_lock(t)) /\ WF_vars(mutex_unlock(t))

\* One single-threaded process with two LockManager objects: "p1" is the
\* module-level `lock`, "p2" a LockManager the process constructs later,
\* with descriptors and a counter file of its own. The process makes one
\* call at a time, on either object ("p1a" is the process calling the
\* first object, "p2a" the same process calling the second).
InitInstances ==
    /\ InitLockManager([p \in Procs |-> IF p = "p1" THEN {"ok"} ELSE {"no_global"}])
    /\ lock_file = TRUE
    /\ InitBroker({FALSE})
    /\ InitPriv({RootEnv})
    /\ InitSignals

NextInstances ==
    \/ init_lock("p2")
    \/ \E t \in {"p1a", "p2a"} :
         \/ /\ \A u \in Threads : pc[u] = "idle"
            /\ depth[t] < MaxNest
            /\ Initialized(ProcOf(t))
            /\ mutex_lock_call(t)
         \/ mutex_lock(t)
         \/ /\ \A u \in Threads : pc[u] = "idle"
            /\ depth[t] > 0
            /\ mutex_unlock_call(t)
         \/ mutex_unlock(t)

SpecInstances == InitInstances /\ [][NextInstances]_vars

\* One process nesting mutex_lock() with no mutex_unlock(). A run starts
\* from the constructed LockManager, or from the counter file that
\* 9999999990 nested calls leave when each wrote its own number.
NestedStarts == {<<0>>, <<9, 9, 9, 9, 9, 9, 9, 9, 9, 0>>}

InitNested ==
    /\ nlocks \in NestedStarts
    /\ nsteps = 0
    /\ cfile = [p \in Procs |-> IF p = "p1" THEN nlocks ELSE <<0>>]
    /\ gflock = IF nlocks = <<0>> THEN "free" ELSE "p1"
    /\ lock_fd = [p \in Procs |-> "open"]
    /\ counter_lock_fd = [p \in Procs |-> "open"]
    /\ cpath = [p \in Procs |-> TRUE]
    /\ lock_file = TRUE
    /\ cflock = [p \in Procs |-> FALSE]
    /\ pc = [t \in Threads |-> "idle"]
    /\ counter = [t \in Threads |-> 0]
    /\ readv = [t \in Threads |-> 0]
    /\ ret = [t \in Threads |-> "none"]
    /\ op = [t \in Threads |-> "none"]
    /\ depth = [t \in Threads |-> 0]
    /\ InitBroker({FALSE})
    /\ InitPriv({RootEnv})
    /\ InitSignals

NextNested ==
    \/ nested_mutex_lock("p1a")
    \/ /\ nsteps = MaxNested
       /\ cleanup_lock("p1a")

SpecNested == InitNested /\ [][NextNested]_vars

\* The daemon and clients whose requests are short or longer than one
\* conn.recv(4096) returns.
LongCommands == {JStr(<<"iw">>), JStr(<<"rm">>), JStr(<<"iw", "config">>)}
LongArgs ==
    {JList(<< <<"dev">> >>), JList(<< <<Pad>> >>), JList(<< <<"-f">>, <<Pad, "x">> >>),
     JStr(<<>>)}

NextLong ==
    \/ start
    \/ \E c \in Conns, command \in LongCommands, args \in LongArgs :
          send_request(c, command, args)
    \/ \E c \in Conns : accept(c)
    \/ \E c \in Conns, out \in Outcomes : handle_client(c, out)
    \/ \E c \in Conns, e \in LostExceptions : recv_response(c, e)

SpecLong == InitDaemon /\ [][NextLong]_vars

\* A client program and the daemon: the program is entered through the
\* __main__ block (ensure_daemon_running) or through `with APManagerClient()`
\* (__enter__), before or after the daemon started or stopped, and sends
\* requests.
NextClient ==
    \/ start
    \/ ensure_daemon_running
    \/ enter
    \/ \E c \in Conns, command \in ServiceCommands, args \in ServiceArgs :
          send_request(c, command, args)
    \/ \E c \in Conns, e \in LostExceptions : recv_response(c, e)
    \/ \E c \in Conns : accept(c)
    \/ \E c \in Conns, out \in Outcomes : handle_client(c, out)
    \/ handle_signal
    \/ start_return
    \/ process_exit

SpecClient == InitService /\ [][NextClient]_vars

\* A PrivilegeManager in any environment: commands are classified, and
\* main() or a function decorated with require_network_privileges calls
\* elevate_if_needed().
InitPrivilege ==
    /\ InitLockManager([p \in Procs |-> {"ok"}])
    /\ InitBroker({FALSE})
    /\ InitPriv(Envs)
    /\ InitSignals

NextPrivilege ==
    \/ \E cmd \in required_commands \cup OtherCommands : probe_command(cmd)
    \/ \E exec_ok \in BOOLEAN, rc \in ExitCodes : elevate_if_needed(exec_ok, rc)
    \/ main
    \/ require_network_privileges

SpecPrivilege == InitPrivilege /\ [][NextPrivilege]_vars

\* The functions of the spawn-and-wait backends called one after another,
\* each child ending in any way.
BackendEnvs == {e \in Envs : \A c \in required_commands : e.commands[c] = RootEnv.commands[c]}

InitBackends ==
    /\ InitLockManager([p \in Procs |-> {"ok"}])
    /\ InitBroker({FALSE})
    /\ InitPriv(BackendEnvs)
    /\ InitSignals

NextBackends ==
    \/ pkexec_create
    \/ pkexec_spawn
    \/ \E outcome \in ChildOutcomes : pkexec_finish(outcome)
    \/ systemd_run_missing
    \/ systemd_run_create
    \/ systemd_run_spawn
    \/ \E outcome \in ChildOutcomes : systemd_run_finish(outcome)
    \/ create_polkit_action

SpecBackends == InitBackends /\ [][NextBackends]_vars

\* A parent and its child, both with a SignalHandler, receiving signals.
\* A process that has a signal pending or a handler running goes on
\* running: the interpreter calls the handler and executes its statements.
InitSignalHandler ==
    /\ InitLockManager([p \in Procs |-> {"ok"}])
    /\ InitBroker({FALSE})
    /\ InitPriv({RootEnv})
    /\ InitSignals

NextSignalHandler ==
    \/ \E p \in SigProcs, sig \in Signals : send_signal(p, sig)
    \/ \E p \in SigProcs, sig \in Signals : sh_handle_signal(p, sig)
    \/ \E p \in SigProcs, sig \in Signals : original_disposition(p, sig)
    \/ \E p \in SigProcs : clean_exit_kill(p)
    \/ \E p \in SigProcs : restore_handlers(p)
    \/ \E p \in SigProcs : cleanup(p)
    \/ \E p \in SigProcs : sys_exit(p)

SpecSignalHandler ==
    /\ InitSignalHandler
    /\ [][NextSignalHandler]_vars
    /\ \A p \in SigProcs : WF_vars(SignalStep(p))

\* ------------------------------------------------------------------ claims: the mutex

\* A process is inside a critical section when one of its threads has an
\* acquisition that returned True and has not called mutex_unlock for it.
InCS(p) == \E t \in ThreadsOf(p) : depth[t] > 0
Quiet(p) == \A t \in ThreadsOf(p) : pc[t] = "idle"

RECURSIVE SumDepth(_)
SumDepth(ts) ==
    IF ts = {} THEN 0
    ELSE LET t == CHOOSE x \in ts : TRUE IN depth[t] + SumDepth(ts \ {t})

\* C1: two processes bracketing critical sections with mutex_lock() ...
\* mutex_unlock(), nested or not: a process inside a critical section holds
\* the exclusive lock on the global file, and no two processes are inside
\* critical sections at once.
C1_CriticalSectionsNeverOverlap ==
    /\ \A p \in Procs : InCS(p) => gflock = p
    /\ \A p, q \in Procs : (InCS(p) /\ InCS(q)) => p = q

\* p1 is two levels deep in its critical section while p2 waits in flock().
C1_Witness ==
    /\ depth["p1a"] = 2
    /\ pc["p2a"] = "lk_flock_global"
    /\ gflock = "p1"

\* C2: with two threads of one process on one LockManager, no increment
\* or decrement of the counter is lost (between calls the counter equals the
\* outstanding acquisitions of all threads) and the global lock is held as
\* long as a thread of the process is inside its critical section.
C2_CounterSerialized ==
    \A p \in Procs :
        /\ Quiet(p) => ReadCounter(cfile[p]) = SumDepth(ThreadsOf(p))
        /\ InCS(p) => gflock = p

\* C3: between calls, a process whose LockManager was constructed and not
\* cleaned up holds the global lock exactly when its running balance
\* (acquires minus releases, clamped at 0) is positive, and the counter
\* reads 0 when the balance is 0.
C3_HeldIffBalancePositive ==
    \A p \in Procs :
        (Quiet(p) /\ lock_fd[p] = "open" /\ counter_lock_fd[p] = "open")
            => /\ (gflock = p) <=> (SumDepth(ThreadsOf(p)) > 0)
               /\ SumDepth(ThreadsOf(p)) = 0 => ReadCounter(cfile[p]) = 0

\* C4: between LockManager calls (mutex_lock, mutex_unlock, cleanup_lock,
\* successful or failed) the process holds the global lock if and only if
\* its counter is greater than 0.
C4_HeldIffCounterPositive ==
    \A p \in Procs :
        Quiet(p) => ((gflock = p) <=> (ReadCounter(cfile[p]) > 0))

\* C5: mutex_lock requests the global lock only when the counter it read is
\* 0; mutex_unlock releases it only when the counter it read is 1; a nested
\* mutex_lock (counter read > 0) goes straight to the increment, never to
\* the request on the global file, and returns True with the counter one
\* higher; the holder of the global lock changes only in those two steps
\* or in cleanup_lock.
C5_GlobalLockOnlyOnTransitions ==
    [][/\ \A t \in Threads :
            /\ (pc[t] # "lk_flock_global" /\ pc'[t] = "lk_flock_global") => readv'[t] = 0
            /\ (pc[t] # "ul_unflock_global" /\ pc'[t] = "ul_unflock_global") => readv'[t] = 1
            /\ (pc[t] = "lk_read" /\ pc'[t] # "lk_read" /\ readv'[t] > 0)
                   => pc'[t] = "lk_write"
            /\ (pc[t] = "lk_unflock_counter" /\ pc'[t] = "idle" /\ readv[t] > 0)
                   => /\ ret'[t] = "True"
                      /\ counter[t] = readv[t] + 1
       /\ gflock' # gflock
             => \E u \in Threads :
                    /\ ProcOf(u) \in {gflock, gflock'}
                    /\ \/ pc[u] = "lk_flock_global" /\ pc'[u] = "lk_write" /\ readv[u] = 0
                       \/ pc[u] = "ul_unflock_global" /\ pc'[u] = "ul_write" /\ readv[u] = 1
                       \/ pc[u] = "idle" /\ pc'[u] = "idle" /\ op'[u] = "cleanup_lock"
      ]_vars

\* A nested mutex_lock has returned True without a request on the global file.
C5_Witness ==
    /\ op["p1a"] = "mutex_lock"
    /\ pc["p1a"] = "idle"
    /\ ret["p1a"] = "True"
    /\ readv["p1a"] = 2
    /\ gflock = "p1"

\* C6: mutex_unlock with the counter at 0 leaves the counter at 0 and
\* reports the over-release: its result differs from that of a release that
\* was matched by an acquisition.
C6_OverReleaseReported ==
    \A t \in Threads :
        (op[t] = "mutex_unlock" /\ pc[t] = "idle" /\ ret[t] # "none"
            /\ Initialized(ProcOf(t)) /\ readv[t] = 0)
            => /\ ReadCounter(cfile[ProcOf(t)]) = 0
               /\ ret[t] # "True"

\* C7: after a constructor that could not open the global file or the
\* counter file mutex_lock returns False and acquires nothing, and
\* mutex_lock returns True only when the process holds the global lock.
C7_TrueOnlyWithLock ==
    [][\A t \in Threads :
         /\ (pc[t] = "idle" /\ op'[t] = "mutex_lock" /\ ~Initialized(ProcOf(t)))
                => (pc'[t] = "idle" /\ ret'[t] = "False" /\ gflock' = gflock)
         /\ (pc[t] = "lk_unflock_counter" /\ pc'[t] = "idle" /\ ret'[t] = "True")
                => gflock' = ProcOf(t)
      ]_vars

\* The part of C7 about the constructor, which holds: a LockManager whose
\* files could not be opened never holds the global lock, and its
\* mutex_lock returns False.
InitFailureRefused ==
    \A t \in Threads :
        ~Initialized(ProcOf(t))
            => /\ gflock # ProcOf(t)
               /\ depth[t] = 0
               /\ op[t] = "mutex_lock" => ret[t] = "False"

\* ------------------------------------------------------------------ claims: the broker

Handled(c) == conn[c].st = "closed" /\ conn[c].data.kind = "object"
CommandOf(c) == GetCommand(conn[c].data)
ArgsOf(c) == GetArgs(conn[c].data)
InAllowList(command) == command.type = "str" /\ StrOf(command) \in DOMAIN allowed_commands

C9_ProgramFromTemplate ==
    \A c \in Conns :
        \A i \in 1..Len(spawned[c]) :
            /\ InAllowList(CommandOf(c))
            /\ spawned[c][i].argv[1] = allowed_commands[StrOf(CommandOf(c))][1]

\* C10: a request with an allow-list key and a list of strings as args runs
\* the key's template followed by the args; the response carries the exit
\* code of that process, with success exactly when it is 0.
C10_TemplateThenArgs ==
    \A c \in Conns :
        (Handled(c) /\ InAllowList(CommandOf(c)) /\ ArgsOf(c).type = "list")
            => /\ Len(spawned[c]) = 1
               /\ spawned[c][1].argv = allowed_commands[StrOf(CommandOf(c))] \o ArgsOf(c).val
               /\ Len(conn[c].sent) = 1
               /\ ~spawned[c][1].out.timeout
                     => /\ conn[c].sent[1].returncode = <<spawned[c][1].out.rc>>
                        /\ conn[c].sent[1].success = (spawned[c][1].out.rc = 0)

\* ------------------------------------------------------------------ claims: the daemon's connections

\* The daemon accepted the connection and the peer wrote a request on it.
Accepted(c) == conn[c].st \in {"accepted", "closed", "aborted"}
SentRequest(c) == conn[c].data.kind # "empty"
\* The daemon's end of the connection is closed.
Over(c) == conn[c].st \in {"closed", "aborted"}
\* The client did not give up waiting for the response.
ClientWaited(c) == result[c].exc # "timeout"

\* C11: on every connection the daemon accepted and on which the peer sent a
\* request (and still waits for the answer), the daemon has written exactly
\* one response when its end of the connection is closed, never none and
\* never two.
C11_OneResponseThenClose ==
    \A c \in Conns :
        (Accepted(c) /\ SentRequest(c) /\ ClientWaited(c) /\ Over(c))
            => Len(conn[c].sent) = 1

\* C19: when the daemon process has stopped after a termination signal,
\* every connection it had accepted was handled to the end: closed by its
\* handler, with the response sent if the peer had sent a request and still
\* waited for it.
C19_HandlersFinishBeforeStopped ==
    daemon = "stopped" =>
        \A c \in Conns :
            Accepted(c) =>
               /\ conn[c].st = "closed"
               /\ (SentRequest(c) /\ ClientWaited(c)) => conn[c].sent # <<>>

\* ------------------------------------------------------------------ claims: privileges

\* elevate_if_needed() has come to its end.
Decided == estate # "Probed"
\* Some required command is both present and classified as root-requiring.
NeedsElevation(e) ==
    \E cmd \in required_commands :
        e.commands[cmd].available /\ check_command_needs_root(cmd, e)
\* elevate_if_needed() returned True without entering a backend.
Sufficient == eresult = "True" /\ backend = "none"

\* C12: elevate_if_needed() returns True without entering an elevation
\* backend exactly when the caller is root or no required command is both
\* present and root-requiring; a root caller always gets that answer.
C12_SufficientIffRootOrNoNeed ==
    Decided =>
        /\ Sufficient <=> (env.is_root \/ ~NeedsElevation(env))
        /\ env.is_root => Sufficient

\* Not root, one command missing (so its probe raised), the others in place
\* and needing no root: reported sufficient, no backend entered.
C12_Witness ==
    /\ estate = "returned"
    /\ ~env.is_root
    /\ \E cmd \in required_commands : ~env.commands[cmd].available
    /\ \E cmd \in required_commands : env.commands[cmd].available
    /\ Sufficient

\* Not root and none of sudo, pkexec and systemd-run to be had.
NoBackend(e) ==
    ~e.is_root /\ ~e.sudo_available /\ ~e.pkexec_available /\ ~e.systemd_run

\* C13: not root, no sudo, no helper, no session manager: elevate_if_needed()
\* returns failure whatever the commands answer.
C13_NoBackendAlwaysImpossible ==
    (Decided /\ NoBackend(env)) => eresult = "False"

\* C13 as amended: not root, no sudo, no helper, no session manager:
\* elevate_if_needed() enters no backend, returns failure exactly when some
\* required command is both present and classified as root-requiring, and
\* returns True otherwise.
C13_NoBackendImpossibleIffNeeded ==
    (Decided /\ NoBackend(env)) =>
        /\ backend = "none"
        /\ estate # "replaced"
        /\ eresult = (IF NeedsElevation(env) THEN "False" ELSE "True")

\* No backend, iw in place and working only under sudo: failure returned.
C13_Witness ==
    /\ estate = "returned"
    /\ NoBackend(env)
    /\ env.commands["iw"] = [available |-> TRUE, plain |-> "fail", sudo |-> "ok"]
    /\ eresult = "False"

\* elevate_if_needed() got to "Need to elevate".
ElevationNeeded == Decided /\ ~env.is_root /\ NeedsElevation(env)
\* The backend the priority order sudo, pkexec, systemd-run gives.
FirstAvailable(e) ==
    IF e.sudo_available THEN "sudo"
    ELSE IF e.pkexec_available THEN "pkexec"
    ELSE IF e.systemd_run THEN "systemd-run"
    ELSE "none"
\* The backend that was invoked: _elevate_with_systemd_run invokes nothing
\* when systemd-run is not installed.
Used == IF backend = "systemd-run" /\ ~env.systemd_run THEN "none" ELSE backend

\* C14: when elevation is needed the backend invoked is the first available
\* of sudo, pkexec, systemd-run: pkexec only without sudo and with pkexec,
\* systemd-run only without sudo and pkexec and with systemd-run, and none
\* only when none of the three is available.
C14_FirstAvailableBackend ==
    ElevationNeeded =>
        /\ Used = FirstAvailable(env)
        /\ Used = "pkexec" => (~env.sudo_available /\ env.pkexec_available)
        /\ Used = "systemd-run" =>
              (~env.sudo_available /\ ~env.pkexec_available /\ env.systemd_run)
        /\ Used = "none" =>
              (~env.sudo_available /\ ~env.pkexec_available /\ ~env.systemd_run)

\* The classification the claim gives for a command name in environment e.
RootRequiring(cmd, e) ==
    IF cmd \notin required_commands THEN TRUE
    ELSE LET p == e.commands[cmd]
         IN CASE p.plain = "ok" -> FALSE
              [] p.plain = "fail" /\ p.sudo = "ok" -> TRUE
              [] p.plain = "fail" /\ p.sudo = "fail" -> TRUE
              [] OTHER -> TRUE

\* C15: _check_command_needs_root(cmd) answers False when the probe without
\* sudo succeeds and True in every other case: that probe fails and the
\* sudo probe succeeds, both fail, a probe raises or times out, or the
\* command has no test command.
C15_ProbeClassification ==
    \A i \in 1..Len(probed) :
        probed[i].needs_root = RootRequiring(probed[i].cmd, env)

\* What elevate_if_needed() gives its caller when the backend it chose is
\* invoked and fails: sudo that cannot be executed, systemd-run that exits
\* with a code other than 0.
BackendFailureResults ==
    {elevate_with_sudo(FALSE).res}
        \cup {elevate_with_systemd_run([env EXCEPT !.systemd_run = TRUE], rc).res :
                 rc \in ExitCodes \ {0}}

\* C17: elevation needed and no backend available: what elevate_if_needed()
\* gives its caller is not success, and is not what it gives when a backend
\* was invoked and failed; the caller does not go on.
C17_ImpossibleIsDistinct ==
    (ElevationNeeded /\ NoBackend(env)) =>
        /\ eresult # "True"
        /\ eresult \notin BackendFailureResults
        /\ caller \notin {"main: proceeds", "wrapper: proceeds"}

\* C18: once _elevate_with_sudo is entered, either the process image is
\* replaced and nothing returns, or elevate_if_needed() returns failure to
\* its caller, which does not go on as if elevated.
C18_SudoReplacesOrReturnsFailure ==
    (Decided /\ backend = "sudo") =>
        \/ estate = "replaced" /\ caller = "none"
        \/ /\ estate \in {"returned", "done"}
           /\ eresult = "False"
           /\ caller \notin {"main: proceeds", "wrapper: proceeds"}

\* ------------------------------------------------------------------ claims: the client

\* The daemon wrote no response on the connection of the call.
NoResponse(c) == conn[c].sent = <<>>
DaemonNotRunning == [kind |-> "raised", exc |-> "ConnectionError: Daemon not running",
                     value |-> <<>>]

\* C16: a call of _send_request that ends without a response of the daemon
\* (no socket path, connect refused, timeout, connection closed with nothing
\* on it) ends with an exception and never with a dict; a dict is returned
\* only when the daemon wrote it, so a failure of the transport cannot be
\* taken for a response with success false. Without the socket path the
\* call raises "Daemon not running" and opens no connection.
C16_TransportFailureRaises ==
    [][\A c \in Conns :
          result'[c] # result[c] =>
             /\ (result[c].kind = "none" /\ ~sockpath) =>
                   /\ result'[c] = DaemonNotRunning
                   /\ conn[c].st = "unused"
                   /\ conn'[c] = conn[c]
             /\ result'[c].kind = "returned" =>
                   /\ conn[c].st = "closed"
                   /\ result'[c].value = conn[c].sent
                   /\ Len(conn[c].sent) = 1
             /\ (NoResponse(c) /\ result'[c].kind # "waiting") =>
                   result'[c].kind = "raised"]_vars

\* One call failed fast without a connection, another got the daemon's
\* rejection of "rm" as a dict with success false.
C16_Witness ==
    /\ result["c1"] = DaemonNotRunning
    /\ conn["c1"].st = "unused"
    /\ result["c2"].kind = "returned"
    /\ result["c2"].value[1].success = FALSE
    /\ result["c2"].value[1].error = NotAllowed(JStr(<<"rm">>))

\* ------------------------------------------------------------------ claims: signals

AllOriginal(p) == \A sig \in Signals : shandlers[p][sig] = "original"
\* The process ended in sys.exit.
Exited(p) == status[p] \in {"exit 0", "exit 1"}
\* handle_signal was called, and only with SIGINT and SIGUSR1 / only with SIGUSR2.
OnlyClean(p) ==
    /\ received[p] # <<>>
    /\ \A i \in 1..Len(received[p]) : received[p][i] \in {"SIGINT", "SIGUSR1"}
OnlyFatal(p) ==
    /\ received[p] # <<>>
    /\ \A i \in 1..Len(received[p]) : received[p][i] = "SIGUSR2"

ClientSent(c) == conn[c].st # "unused" /\ result[c].kind # "none"
ReqId(k) == <<"req_", ToString(k)>>

\* C21: the ids of the requests the client sent are "req_1" ... "req_n" for
\* the n requests sent (the k-th carries "req_k"), and a call that fails
\* fast without the socket path leaves the id counter alone.
C21_KthRequestCarriesReqK ==
    /\ {GetId(conn[c].data) : c \in {d \in Conns : ClientSent(d)}}
          = {ReqId(k) : k \in 1..Cardinality({d \in Conns : ClientSent(d)})}
    /\ \A c \in Conns :
          (result[c] = DaemonNotRunning /\ \A d \in Conns \ {c} : result[d].kind = "none")
              => request_id = 0

\* C21 as amended: the ids of the requests sent are strictly increasing
\* and never repeated; the id sent is "req_k" for the k-th call that found
\* the socket path, whether or not its connect succeeded; a call that fails
\* fast without the socket path leaves the id counter alone.
C21_IdsIncreaseWithCallsPastCheck ==
    [][/\ request_id' >= request_id
       /\ \A c \in Conns :
             /\ (result[c].kind = "none" /\ result'[c] = DaemonNotRunning)
                   => request_id' = request_id
             /\ (result[c].kind = "none" /\ result'[c].kind \in {"waiting", "raised"}
                   /\ result'[c] # DaemonNotRunning)
                   => request_id' = request_id + 1
             /\ (~ClientSent(c) /\ ClientSent(c)')
                   => /\ GetId(conn'[c].data) = ReqId(request_id')
                      /\ \A d \in Conns \ {c} :
                            ClientSent(d) =>
                               \E k \in 1..request_id : GetId(conn[d].data) = ReqId(k)]_vars

\* The first call found a stale socket path and was refused; the second
\* call is the first request sent and carries "req_2".
C21_Witness ==
    /\ result["c1"] = Raised("ConnectionRefusedError")
    /\ conn["c1"].st = "unused"
    /\ ClientSent("c2")
    /\ GetId(conn["c2"].data) = ReqId(2)

\* ------------------------------------------------------------------ claims: the client's entry

\* C22: entering the client program while the daemon is not running makes
\* exactly one attempt to start it, on the __main__ path and on the
\* context-manager path; no entry makes more than one.
C22_OneStartAttempt ==
    [][/\ (entry = "none" /\ entry' # "none" /\ ~is_active) => starts' = starts + 1
       /\ starts' <= 1]_vars

\* The context-manager entry ran while the daemon was not running, and no
\* start command was run.
C22_Witness == entry = "AttributeError" /\ starts = 0 /\ daemon = "init"

\* ------------------------------------------------------------------ claims: lock files

\* The step is a call of cleanup_lock in process p.
CleanupStep(p) ==
    \E t \in ThreadsOf(p) :
        pc[t] = "idle" /\ pc'[t] = "idle" /\ op'[t] = "cleanup_lock"
           /\ (lock_fd'[p] # lock_fd[p] \/ cpath'[p] # cpath[p] \/ op'[t] # op[t])

\* C23: no step of mutex_lock, mutex_unlock or cleanup_lock deletes the
\* global lock file once it exists, and once cleanup_lock has run in a
\* process its counter file's path is gone and stays gone.
C23_GlobalFileKeptCounterFileRemoved ==
    [][/\ lock_file => lock_file'
       /\ \A p \in Procs :
             /\ CleanupStep(p) => ~cpath'[p]
             /\ (~cpath[p]) => ~cpath'[p]]_vars

\* cleanup_lock ran in p1 after its counter file had been written by a
\* mutex_lock: the counter path is gone, the global file is there.
C23_Witness ==
    \E t \in ThreadsOf("p1") :
        /\ op[t] = "cleanup_lock"
        /\ depth[t] >= 1
        /\ ~cpath["p1"]
        /\ lock_fd["p1"] = "closed"
        /\ lock_file

\* ------------------------------------------------------------------ claims: the counter text

\* C24: after N nested mutex_lock() calls with no mutex_unlock() the counter
\* file holds exactly the decimal digits of N, for every N >= 1.
C24_CounterFileIsDecimalN ==
    nlocks # <<0>> => cfile["p1"] = nlocks

\* Calls were made in the run and the file went from ten to eleven digits.
C24_Witness == nsteps >= 1 /\ Len(cfile["p1"]) = ReadSize + 1

\* ------------------------------------------------------------------ claims: temporary files

ArtifactOf(fn) ==
    IF fn = "_elevate_with_pkexec" THEN "shell_wrapper"
    ELSE IF fn = "_elevate_with_systemd_run" THEN "service_unit"
    ELSE "policy_file"

\* C25: the temporary file of a backend exists while its child runs, and
\* when a backend function has returned or raised, on any outcome of the
\* child, no shell wrapper, service unit or policy file exists.
C25_ArtifactsRemovedOnReturn ==
    /\ ecall.pos = "spawned" => ArtifactOf(ecall.fn) \in tmpfiles
    /\ ecall.pos \in {"returned", "raised"} => tmpfiles = {}

\* The policy file was written, and a later pkexec elevation has returned:
\* the shell wrapper is gone, the policy file is still there.
C25_Witness ==
    /\ ecall.fn = "_elevate_with_pkexec"
    /\ ecall.pos = "returned"
    /\ tmpfiles = {"policy_file"}

\* ------------------------------------------------------------------ claims: request_id

\* C26: every response the daemon writes for a request that parsed as a
\* JSON object carries that request's id as request_id, on every path of
\* the handler.
C26_ResponseCarriesRequestId ==
    \A c \in Conns :
        (Handled(c) /\ conn[c].data.kind = "object")
            => \A i \in 1..Len(conn[c].sent) :
                  conn[c].sent[i].request_id = <<GetId(conn[c].data)>>

\* A well-formed request whose processing raised was answered with the
\* error reply, which has no request_id.
C26_Witness ==
    \E c \in Conns :
        /\ Handled(c)
        /\ conn[c].data.kind = "object"
        /\ conn[c].data.id = << ReqId(1) >>
        /\ Len(conn[c].sent) = 1
        /\ conn[c].sent[1].request_id = <<>>

\* ------------------------------------------------------------------ claims: the request on the wire

\* C27: for every request object a client wrote, of any length, the
\* handler parsed the whole request: what it received is the request, and
\* its reply is the reply to that request.
C27_WholeRequestParsed ==
    \A c \in Conns :
        Handled(c) =>
            /\ recv(conn[c].data) = conn[c].data
            /\ conn[c].sent # <<ErrorReply("JSONDecodeError")>>

\* A request of more than RecvSize bytes with an allowed command was
\* answered with the JSON decoding error and no process was started.
C27_Witness ==
    \E c \in Conns :
        /\ Handled(c)
        /\ CommandOf(c) = JStr(<<"iw">>)
        /\ ArgsOf(c) = JList(<< <<Pad>> >>)
        /\ Size(conn[c].data) > RecvSize
        /\ spawned[c] = <<>>
        /\ conn[c].sent = <<ErrorReply("JSONDecodeError")>>

\* ------------------------------------------------------------------ claims: progress of the mutex

\* The thread is inside flock(self.lock_fd, LOCK_EX).
InFlock(t) == pc[t] = "lk_flock_global" /\ lock_fd[ProcOf(t)] = "open"
Blocked(t) == InFlock(t) /\ ~FlockGranted(gflock, ProcOf(t))
Obtained(t) == pc[t] = "lk_write" /\ gflock = ProcOf(t)
Gone(p) == \A t \in ThreadsOf(p) : pc[t] = "exited"

\* Every process that holds the mutex eventually has its counter back at 0
\* or has ended.
HoldersRelease ==
    \A p \in Procs : (gflock = p) ~> (ReadCounter(cfile[p]) = 0 \/ Gone(p))

\* C28: if every holder eventually releases the mutex fully or ends, then
\* whenever a process is blocked in mutex_lock(), eventually a caller has
\* obtained the global lock or no caller is left waiting for it (every
\* waiter has ended): the waiters never stay blocked forever.
C28_DeadlockFree ==
    HoldersRelease =>
        ((\E t \in Threads : Blocked(t))
            ~> ((\E t \in Threads : Obtained(t)) \/ (\A t \in Threads : ~InFlock(t))))

\* A process blocked while the other held the mutex two deep now holds it.
C28_Witness ==
    /\ Obtained("p2a")
    /\ depth["p1a"] = 0
    /\ op["p1a"] = "mutex_unlock"
    /\ ReadCounter(cfile["p1"]) = 0
    /\ pc["p1a"] = "idle"

\* ------------------------------------------------------------------ claims: two LockManager objects

\* C29: in a process with two LockManager objects, a mutex_lock() call on
\* one object never waits for the global lock while the process itself
\* holds it through the other object (the process has no other thread that
\* could release it), and while the first object is held its counter is the
\* number of its calls and it owns the global lock, whatever was done with
\* the second object.
C29_ReentrantAcrossObjects ==
    /\ \A t \in {"p1a", "p2a"} : ~Blocked(t)
    /\ (depth["p1a"] > 0 /\ pc["p1a"] = "idle")
          => (gflock = "p1" /\ ReadCounter(cfile["p1"]) = depth["p1a"])

\* The process holds the mutex through the first object, constructed the
\* second and is inside flock() of the second object's mutex_lock().
C29_Witness ==
    /\ depth["p1a"] = 1
    /\ gflock = "p1"
    /\ ReadCounter(cfile["p1"]) = 1
    /\ Initialized("p2")
    /\ pc["p2a"] = "lk_flock_global"
    /\ ReadCounter(cfile["p2"]) = 0

\* ------------------------------------------------------------------ claims: the parent of a clean exit

\* Every signal sent from outside went to the child, so whatever the
\* parent receives was sent by the child's clean_exit.
OnlyChildSignalled == external = Len(received["sc"]) + Cardinality(pending["sc"])

\* C30: when the only signals the parent gets are those its child sends in
\* clean_exit(), the parent never enters die() and never ends with exit
\* status 1.
C30_ParentNotDrivenToDie ==
    OnlyChildSignalled =>
        /\ status["sp"] # "exit 1"
        /\ \A i \in 1..Len(frames["sp"]) : frames["sp"][i].path # "die"

\* The child left through clean_exit on SIGINT, the one signal sent from
\* outside; the parent has ended with exit status 1.
C30_Witness ==
    /\ external = 1
    /\ received["sc"] = <<"SIGINT">>
    /\ status["sc"] = "exit 0"
    /\ received["sp"] = <<"SIGUSR2">>
    /\ status["sp"] = "exit 1"

====
